---- MODULE Spec2Model ----
(***************************************************************************)
(* PayLens: subset selection of pay codes (backend/app/solver.py), the     *)
(* single-row and batch endpoints (backend/app/main.py) and the batch      *)
(* script (test_data/batch_infer.py).                                      *)
(*                                                                         *)
(* Python floats are modelled as exact rationals [t, n, d] (t = "num",     *)
(* d > 0, lowest terms), NaN as t = "nan", None as t = "none"; a           *)
(* spreadsheet cell holding text is t = "str".                             *)
(***************************************************************************)
EXTENDS Integers, Sequences, FiniteSets, TLC

\* ---------------------------------------------------------------- bounds
MaxAmt == 4        \* largest pay-code amount of a solver call, in half-cents
MaxTarget == 9     \* largest target of a solver call, in half-cents
MaxCand == 3       \* largest max_candidates of a solver call
MaxRows == 2       \* most rows of a batch
MaxTol == 3        \* tolerance_pct ranges over -MaxTol .. MaxTol (whole units)

\* ------------------------------------------------------- program constants
Scale == 100            \* scale: dollars -> integer units (cents)
Million == 1000000      \* 10**6 in LARGE

\* column order of the pay codes (dict / DataFrame column order)
CodeOrder == <<"REG", "OT", "BON">>
PayCodes == {CodeOrder[k] : k \in 1..Len(CodeOrder)}

\* ------------------------------------------------------------ float values
RECURSIVE GCD(_, _)
GCD(a, b) == IF b = 0 THEN a ELSE GCD(b, a % b)

AbsInt(x) == IF x < 0 THEN -x ELSE x

\* the rational n/d (d # 0) in lowest terms with a positive denominator
Norm(n, d) ==
    LET s == IF d < 0 THEN -1 ELSE 1
        g == GCD(AbsInt(n), AbsInt(d))
    IN  [t |-> "num", n |-> (s * n) \div g, d |-> (s * d) \div g]

NaN == [t |-> "nan", n |-> 0, d |-> 1]
None == [t |-> "none", n |-> 0, d |-> 1]
Str == [t |-> "str", n |-> 0, d |-> 1]
Zero == Norm(0, 1)
One == Norm(1, 1)

IsNum(x) == x.t = "num"
IsNaN(x) == x.t = "nan"
\* x == 0 (False for NaN)
IsZero(x) == IsNum(x) /\ x.n = 0

\* x <= y, x < y on floats: every comparison with NaN is False
FLe(x, y) == IsNum(x) /\ IsNum(y) /\ x.n * y.d <= y.n * x.d
FLt(x, y) == IsNum(x) /\ IsNum(y) /\ x.n * y.d < y.n * x.d
FEq(x, y) == IsNum(x) /\ IsNum(y) /\ x.n * y.d = y.n * x.d

FAbs(x) == IF IsNum(x) THEN Norm(AbsInt(x.n), x.d) ELSE x
FSub(x, y) == IF IsNum(x) /\ IsNum(y) THEN Norm(x.n * y.d - y.n * x.d, x.d * y.d) ELSE NaN
FMul(x, y) == IF IsNum(x) /\ IsNum(y) THEN Norm(x.n * y.n, x.d * y.d) ELSE NaN
\* x / y for y # 0
FDiv(x, y) == IF IsNum(x) /\ IsNum(y) THEN Norm(x.n * y.d, x.d * y.n) ELSE NaN
\* Python max(a, b): b only when b > a
FMax(a, b) == IF FLt(a, b) THEN b ELSE a

\* Python round(): nearest integer, ties to even, of n/d with d > 0
RoundHalfEven(n, d) ==
    LET q == n \div d
        r == n % d
    IN  IF 2 * r < d THEN q
        ELSE IF 2 * r > d THEN q + 1
        ELSE IF q % 2 = 0 THEN q ELSE q + 1

\* int(round(v * scale)) for a number v
Scaled(v) == RoundHalfEven(v.n * Scale, v.d)

\* k / float(scale)
Unscaled(k) == Norm(k, Scale)


\* ------------------------------------------------- solve_subset_selection
Min(a, b) == IF a < b THEN a ELSE b
Max(a, b) == IF a > b THEN a ELSE b

\* items = [(k, float(v)) for k, v in values.items() if float(v) != 0.0]
NonZeroItems(values) ==
    LET Keep(c) == ~IsZero(values[c])
    IN  SelectSeq(CodeOrder, Keep)

RemoveAt(s, i) == SubSeq(s, 1, i - 1) \o SubSeq(s, i + 1, Len(s))

\* items.sort(key=lambda kv: abs(kv[1]), reverse=True): stable, descending
RECURSIVE SortByAbsDesc(_, _)
SortByAbsDesc(values, s) ==
    IF s = <<>> THEN <<>>
    ELSE LET Key(j) == FAbs(values[s[j]])
             first == CHOOSE i \in 1..Len(s) :
                         /\ \A j \in 1..Len(s) : FLe(Key(j), Key(i))
                         /\ \A j \in 1..(i - 1) : FLt(Key(j), Key(i))
         IN  <<s[first]>> \o SortByAbsDesc(values, RemoveAt(s, first))

\* the Python slice s[:m]
SliceTo(s, m) ==
    SubSeq(s, 1, IF m >= 0 THEN Min(m, Len(s)) ELSE Max(Len(s) + m, 0))

\* if len(items) > max_candidates: items = items[:max_candidates]
Truncate(s, max_candidates) ==
    IF Len(s) > max_candidates THEN SliceTo(s, max_candidates) ELSE s

\* names: the candidate list that enters the model
Candidates(values, max_candidates) ==
    Truncate(SortByAbsDesc(values, NonZeroItems(values)), max_candidates)

\* scaled_vals = [int(round(v * scale)) for v in vals]
ScaledVals(values, names) == [i \in 1..Len(names) |-> Scaled(values[names[i]])]

\* sum(x_i * sv[i] for i in range(n)) for the assignment x = X
RECURSIVE SumUpTo(_, _, _)
SumUpTo(sv, X, n) ==
    IF n = 0 THEN 0
    ELSE (IF n \in X THEN sv[n] ELSE 0) + SumUpTo(sv, X, n - 1)

SumIdx(sv, X) == SumUpTo(sv, X, Len(sv))

SumAll(sv) == SumIdx(sv, 1..Len(sv))

\* max_diff = max(scaled_target, sum(scaled_vals))
MaxDiff(sv, t) == Max(t, SumAll(sv))

\* LARGE = max(10**6, scaled_target + 1)
Large(t) == Max(Million, t + 1)

\* |sum_j x_j * scaled_vals_j - scaled_target| of the assignment x = X
Dev(sv, t, X) == AbsInt(SumIdx(sv, X) - t)

\* the assignments the model admits: sum_var in [0, sum(scaled_vals)] equals
\* the selected sum, and some diff in [0, max_diff] is >= both differences
FeasibleSets(sv, t) ==
    LET total == SumAll(sv)
        max_diff == MaxDiff(sv, t)
    IN  {X \in SUBSET (1..Len(sv)) :
            LET sum_var == SumIdx(sv, X)
            IN  /\ 0 <= sum_var /\ sum_var <= total
                /\ AbsInt(sum_var - t) <= max_diff}

\* mutant of Objective: the deviation is not weighted by LARGE
Objective_Unweighted(sv, t, prefer_fewer, X) ==
    IF prefer_fewer THEN Dev(sv, t, X) + Cardinality(X)
    ELSE Dev(sv, t, X)

\* the minimised objective, with diff at its least value for the assignment
Objective(sv, t, prefer_fewer, X) ==
    IF prefer_fewer THEN Large(t) * Dev(sv, t, X) + Cardinality(X)
    ELSE Dev(sv, t, X)

OptimalSets(sv, t, prefer_fewer) ==
    LET feas == FeasibleSets(sv, t)
        objs == {Objective(sv, t, prefer_fewer, Y) : Y \in feas}
        least == CHOOSE m \in objs : \A n \in objs : m <= n
    IN  {X \in feas : Objective(sv, t, prefer_fewer, X) = least}

\* an integer variable declared with an empty domain (upper bound below 0)
EmptyDomain(sv, t) == SumAll(sv) < 0 \/ MaxDiff(sv, t) < 0

NoAssignment(st) == [status |-> st, has |-> FALSE, x |-> {}]

\* solver.Solve(model) under a time limit: what the backend may answer.
\* OPTIMAL carries a minimiser, FEASIBLE any admitted assignment (the limit
\* struck after one was found), UNKNOWN none (the limit struck before), and
\* a model without admitted assignment is INFEASIBLE, or rejected when a
\* variable has an empty domain.
BackendResponses(sv, t, prefer_fewer) ==
    LET feas == FeasibleSets(sv, t)
    IN  {NoAssignment("UNKNOWN")}
        \cup (IF feas = {}
              THEN {NoAssignment("INFEASIBLE")}
                   \cup (IF EmptyDomain(sv, t) THEN {NoAssignment("MODEL_INVALID")} ELSE {})
              ELSE {[status |-> "OPTIMAL", has |-> TRUE, x |-> X] :
                        X \in OptimalSets(sv, t, prefer_fewer)}
                   \cup {[status |-> "FEASIBLE", has |-> TRUE, x |-> X] : X \in feas})

\* selected = [name for i, name in enumerate(names) if solver.Value(x_i) == 1]
Selected(names, X) ==
    LET In(i) == i \in X
    IN  [k \in 1..Cardinality(X) |-> names[SelectSeq([i \in 1..Len(names) |-> i], In)[k]]]

\* the returned dict (solve_time left out)
Result(st, names, sv, t, X, target) ==
    [status |-> st,
     selected |-> Selected(names, X),
     selected_sum |-> Unscaled(SumIdx(sv, X)),
     target |-> target,
     abs_error |-> Unscaled(AbsInt(SumIdx(sv, X) - t)),
     scaled_error |-> AbsInt(SumIdx(sv, X) - t),
     num_candidates |-> Len(names)]

\* the early return when no non-zero value is left
EarlyInfeasible(target) ==
    [status |-> "INFEASIBLE", selected |-> <<>>, selected_sum |-> Zero,
     target |-> target, abs_error |-> target, scaled_error |-> Scaled(target)]

NoResult == [status |-> "NONE"]

\* the outcomes of reading one response with solver.Value(x_i): with an
\* assignment, the dict built from it; after a Solve that produced none, the
\* read either raises or yields 0 for every variable, depending on the
\* backend build
Interpretations(resp, names, sv, t, target) ==
    IF resp.has
    THEN {[raised |-> FALSE, ret |-> Result(resp.status, names, sv, t, resp.x, target)]}
    ELSE {[raised |-> TRUE, ret |-> NoResult],
          [raised |-> FALSE, ret |-> Result(resp.status, names, sv, t, {}, target)]}

\* every outcome of solve_subset_selection(values, target, ...) as a whole:
\* raised (an exception leaves the call), backend (the status solver.Solve
\* answered, "NONE" when it was not invoked), ret (the dict returned)
SolveOutcomes(values, target, max_candidates, prefer_fewer) ==
    IF ~IsNum(target)
    THEN {[raised |-> TRUE, backend |-> "NONE", ret |-> NoResult]}
    ELSE IF NonZeroItems(values) = <<>>
    THEN {[raised |-> FALSE, backend |-> "NONE", ret |-> EarlyInfeasible(target)]}
    ELSE LET cands == Candidates(values, max_candidates)
             sv == ScaledVals(values, cands)
             t == Scaled(target)
         IN  UNION {{[raised |-> o.raised, backend |-> r.status, ret |-> o.ret] :
                        o \in Interpretations(r, cands, sv, t, target)} :
                    r \in BackendResponses(sv, t, prefer_fewer)}

\* ------------------------------------------------------------------ state
VARIABLES
    mode,          \* the entry point that runs
    pc,            \* its control position
    call,          \* solve_subset_selection: the arguments
    names,         \* solve_subset_selection: the candidate codes
    cpm,           \* solve_subset_selection: scaled_vals and scaled_target
    response,      \* solve_subset_selection: what solver.Solve answered
    ret,           \* solve_subset_selection: the dict returned
    df,            \* batch: the input rows
    params,        \* batch: the query parameters
    i,             \* batch: rows consumed by the loop
    results,       \* batch: the per-row table
    counter,       \* batch: Counter of selected codes
    loc,           \* batch: the loop's local variables
    report,        \* batch: the summary, or the error
    req,           \* infer_row: the request
    resp,          \* infer_row: the response
    tq,            \* tolerance: selected_sum, rate, amount, tolerance_pct
    verdict,       \* tolerance: within_tolerance
    solverCalls,   \* number of calls of solve_subset_selection
    backendCalls,  \* number of calls of solver.Solve
    lastBackend    \* status of the last solver.Solve of the current row

solverVars == <<call, names, cpm, response, ret>>
batchVars == <<df, params, i, results, counter, loc, report>>
rowVars == <<req, resp>>
tolVars == <<tq, verdict>>
vars == <<mode, pc, call, names, cpm, response, ret, df, params, i, results,
          counter, loc, report, req, resp, tq, verdict, solverCalls,
          backendCalls, lastBackend>>

HalfCents(h) == Norm(h, 2 * Scale)

NoCall == [values |-> [c \in PayCodes |-> Zero], target |-> Zero,
           max_candidates |-> 0, prefer_fewer |-> TRUE]
NoModel == [scaled_vals |-> <<>>, scaled_target |-> 0]
NoParams == [max_candidates |-> 0, tolerance_pct |-> Zero, summary_threshold |-> Zero]
\* a local variable that no statement has assigned yet
Unbound == [t |-> "unbound", n |-> 0, d |-> 1]
NoLocals == [values |-> [c \in PayCodes |-> Unbound], eligible_est |-> Unbound,
             sol |-> [status |-> "unbound"], predicted_contrib |-> Unbound,
             within_tol |-> "unbound"]
NoReport == [kind |-> "none"]
NoRequest == [values |-> [c \in PayCodes |-> Zero], contribution_amount |-> Zero,
              contribution_rate |-> Zero, max_candidates |-> 0, tolerance_pct |-> Zero]
NoTol == [selected_sum |-> Zero, rate |-> Zero, amount |-> Zero, tolerance_pct |-> Zero,
          lower |-> Zero]

InitSolverVars ==
    /\ call = NoCall /\ names = <<>> /\ cpm = NoModel
    /\ response = NoAssignment("NONE") /\ ret = NoResult
InitBatchVars ==
    /\ df = <<>> /\ params = NoParams /\ i = 0 /\ results = <<>>
    /\ counter = [c \in PayCodes |-> 0] /\ loc = NoLocals /\ report = NoReport
InitRowVars == req = NoRequest /\ resp = NoReport
InitTolVars == tq = NoTol /\ verdict = FALSE
InitProbes == solverCalls = 0 /\ backendCalls = 0 /\ lastBackend = "NONE"

\* ------------------------------------- solve_subset_selection, step by step
SolveAmounts == {HalfCents(h) : h \in (0..MaxAmt) \cup {-2}}
SolveTargets == {HalfCents(h) : h \in (0..MaxTarget) \cup {-2}} \cup {NaN}

InitSolve ==
    /\ mode = "solve" /\ pc = "call"
    /\ call \in [values : [PayCodes -> SolveAmounts], target : SolveTargets,
                 max_candidates : -1..MaxCand, prefer_fewer : BOOLEAN]
    /\ names = <<>> /\ cpm = NoModel
    /\ response = NoAssignment("NONE") /\ ret = NoResult
    /\ InitBatchVars /\ InitRowVars /\ InitTolVars /\ InitProbes

\* filter, sort, truncate and scale; the early INFEASIBLE return
Preprocess ==
    /\ mode = "solve" /\ pc = "call"
    /\ solverCalls' = solverCalls + 1
    /\ IF NonZeroItems(call.values) = <<>>
       THEN /\ IF IsNum(call.target)
               THEN pc' = "returned" /\ ret' = EarlyInfeasible(call.target)
               ELSE pc' = "raised" /\ ret' = ret
            /\ UNCHANGED <<names, cpm>>
       ELSE /\ names' = Candidates(call.values, call.max_candidates)
            /\ IF IsNum(call.target)
               THEN /\ pc' = "modelled"
                    /\ cpm' = [scaled_vals |-> ScaledVals(call.values, names'),
                               scaled_target |-> Scaled(call.target)]
               ELSE pc' = "raised" /\ cpm' = cpm
            /\ ret' = ret
    /\ UNCHANGED <<mode, call, response, backendCalls, lastBackend>>
    /\ UNCHANGED <<batchVars, rowVars, tolVars>>

\* build the CP-SAT model and run solver.Solve(model)
BackendSolve ==
    /\ mode = "solve" /\ pc = "modelled"
    /\ \E r \in BackendResponses(cpm.scaled_vals, cpm.scaled_target, call.prefer_fewer) :
          /\ response' = r
          /\ lastBackend' = r.status
    /\ backendCalls' = backendCalls + 1
    /\ pc' = "solved"
    /\ UNCHANGED <<mode, call, names, cpm, ret, solverCalls>>
    /\ UNCHANGED <<batchVars, rowVars, tolVars>>

\* map the status, read the assignment, build the dict
Interpret ==
    /\ mode = "solve" /\ pc = "solved"
    /\ \E o \in Interpretations(response, names, cpm.scaled_vals, cpm.scaled_target,
                                call.target) :
          IF o.raised THEN pc' = "raised" /\ ret' = ret
          ELSE pc' = "returned" /\ ret' = o.ret
    /\ UNCHANGED <<mode, call, names, cpm, response, solverCalls, backendCalls, lastBackend>>
    /\ UNCHANGED <<batchVars, rowVars, tolVars>>

NextSolve == Preprocess \/ BackendSolve \/ Interpret
SpecSolve == InitSolve /\ [][NextSolve]_vars

\* ------------------------------------------------------ ToleranceClassifier
\* mutant of WithinTolerance: the comparison is inverted
WithinTolerance_Inverted(selected_sum, rate, amount, tolerance_pct) ==
    FLe(FMax(FMul(tolerance_pct, amount), One),
        FAbs(FSub(FMul(selected_sum, rate), amount)))

\* err <= max(tolerance_pct * contribution_amount, 1.0), with
\* err = abs(selected_sum * contribution_rate - contribution_amount)
WithinTolerance(selected_sum, rate, amount, tolerance_pct) ==
    FLe(FAbs(FSub(FMul(selected_sum, rate), amount)),
        FMax(FMul(tolerance_pct, amount), One))

\* ------------------------------------------------------------ batch inputs
DefaultMaxCandidates == 50     \* max_candidates: int = Query(50)
ScriptMaxCandidates == 20      \* max_candidates=20 in the script
DefaultTolerance == Norm(3, 100)
ScriptThreshold == Norm(1, 2)

Dollars(k) == Norm(k, 1)
ZeroValues == [c \in PayCodes |-> Zero]
ValueMap(reg, ot) ==
    [c \in PayCodes |-> IF c = "REG" THEN reg ELSE IF c = "OT" THEN ot ELSE Zero]

\* the pay-code cells of a row: all zero, two amounts, a text cell
PlainValues == ValueMap(Dollars(10), Dollars(5))
BatchValues == {ZeroValues, PlainValues, ValueMap(Str, Dollars(5))}
\* contribution_amount cells: 0, 0.5, 5; malformed: an empty cell (NaN), text
BatchAmounts == {Zero, Norm(1, 2), Dollars(5)}
MalformedAmounts == {NaN, Str}
BatchRates == {Zero, Norm(1, 2)}
Thresholds == {Zero, Norm(1, 2), One}

\* the rows: every pay-code row beside every well-formed amount at the rate
\* 0.5, and plain pay-code values beside every amount cell at either rate
RowBodies ==
    [values : BatchValues, contribution_amount : BatchAmounts,
     contribution_rate : {Norm(1, 2)}]
    \cup [values : {PlainValues},
          contribution_amount : BatchAmounts \cup MalformedAmounts,
          contribution_rate : BatchRates]

\* the frames of n rows; employee_id is the position in the input
Frames(n) ==
    {[k \in 1..n |-> [employee_id |-> k, values |-> f[k].values,
                      contribution_amount |-> f[k].contribution_amount,
                      contribution_rate |-> f[k].contribution_rate]] :
        f \in [1..n -> RowBodies]}

IsText(cell) == cell.t = "str"

\* ----------------------------------------------------- infer_file row loop
\* values = {c: float(row.get(c, 0.0) or 0.0) ...}, all 0.0 on an exception
RowValues(row) ==
    IF \E c \in PayCodes : IsText(row.values[c]) THEN ZeroValues ELSE row.values

\* if contrib_rate == 0 or contrib_amt == 0
FileSkips(row) == IsZero(row.contribution_rate) \/ IsZero(row.contribution_amount)

SkipSol == [status |-> "SKIP", selected |-> <<>>, selected_sum |-> Zero]

\* mutant of FileLocals: the SKIP branch does not reset predicted_contrib
FileLocals_Carry(l, row, p, sol) ==
    IF FileSkips(row)
    THEN [values |-> RowValues(row), eligible_est |-> None, sol |-> SkipSol,
          predicted_contrib |-> l.predicted_contrib, within_tol |-> FALSE]
    ELSE [values |-> RowValues(row),
          eligible_est |-> FDiv(row.contribution_amount, row.contribution_rate),
          sol |-> sol,
          predicted_contrib |-> FMul(sol.selected_sum, row.contribution_rate),
          within_tol |-> WithinTolerance(sol.selected_sum, row.contribution_rate,
                                         row.contribution_amount, p.tolerance_pct)]

\* the loop's locals after the if/else of one iteration, from the locals l
\* before it and the dict sol the solver returned (unused on SKIP)
FileLocals(l, row, p, sol) ==
    IF FileSkips(row)
    THEN [values |-> RowValues(row), eligible_est |-> None, sol |-> SkipSol,
          predicted_contrib |-> None, within_tol |-> FALSE]
    ELSE [values |-> RowValues(row),
          eligible_est |-> FDiv(row.contribution_amount, row.contribution_rate),
          sol |-> sol,
          predicted_contrib |-> FMul(sol.selected_sum, row.contribution_rate),
          within_tol |-> WithinTolerance(sol.selected_sum, row.contribution_rate,
                                         row.contribution_amount, p.tolerance_pct)]

\* results.append({...})
FileResultRow(l, row) ==
    [employee_id |-> row.employee_id,
     eligible_est |-> l.eligible_est,
     selected |-> l.sol.selected,
     selected_sum |-> l.sol.selected_sum,
     abs_error |-> IF "abs_error" \in DOMAIN l.sol THEN l.sol.abs_error ELSE None,
     solver_status |-> l.sol.status,
     predicted_contribution |-> l.predicted_contrib,
     within_tolerance |-> l.within_tol]

\* for c in sol.get('selected', []): counter[c] += 1
Count(cnt, selected) ==
    [c \in PayCodes |->
        cnt[c] + Cardinality({j \in 1..Len(selected) : selected[j] = c})]

\* counter.items(): the codes counted at least once
CounterItems(cnt) == {c \in PayCodes : cnt[c] > 0}

\* {'paycode': code, 'count': cnt, 'fraction': cnt / total_rows}; the
\* count-descending order of the rows is not represented
SummaryRows(cnt, total_rows) ==
    {[paycode |-> c, count |-> cnt[c], fraction |-> Norm(cnt[c], total_rows)] :
        c \in CounterItems(cnt)}

\* mutant of SuggestedSet: the fraction must exceed the threshold
SuggestedSet_Strict(cnt, total_rows, threshold) ==
    {c \in CounterItems(cnt) : FLt(threshold, Norm(cnt[c], total_rows))}

\* [code for code, cnt in counter.items() if (cnt / total_rows) >= threshold]
SuggestedSet(cnt, total_rows, threshold) ==
    {c \in CounterItems(cnt) : FLe(threshold, Norm(cnt[c], total_rows))}

ErrorAt(k) == [kind |-> "error", row |-> k]

InitFile ==
    /\ mode = "infer_file" /\ pc = "loop"
    /\ \E n \in 0..MaxRows : df \in Frames(n)
    /\ params \in [max_candidates : {DefaultMaxCandidates},
                   tolerance_pct : {DefaultTolerance},
                   summary_threshold : Thresholds]
    /\ i = 0 /\ results = <<>> /\ counter = [c \in PayCodes |-> 0]
    /\ loc = NoLocals /\ report = NoReport
    /\ InitSolverVars /\ InitRowVars /\ InitTolVars /\ InitProbes

\* one iteration of `for _, row in df.iterrows()`; an exception that leaves
\* it reaches the handler's `except Exception` and ends the request with 500
FileRow ==
    /\ mode = "infer_file" /\ pc = "loop" /\ i < Len(df)
    /\ LET row == df[i + 1]
       IN  IF IsText(row.contribution_amount) \/ IsText(row.contribution_rate)
           THEN /\ pc' = "aborted" /\ report' = ErrorAt(i + 1)
                /\ lastBackend' = "NONE"
                /\ UNCHANGED <<i, results, counter, loc, solverCalls, backendCalls>>
           ELSE IF FileSkips(row)
           THEN /\ loc' = FileLocals(loc, row, params, SkipSol)
                /\ results' = Append(results, FileResultRow(loc', row))
                /\ i' = i + 1
                /\ lastBackend' = "NONE"
                /\ UNCHANGED <<pc, report, counter, solverCalls, backendCalls>>
           ELSE \E o \in SolveOutcomes(RowValues(row),
                                       FDiv(row.contribution_amount, row.contribution_rate),
                                       params.max_candidates, TRUE) :
                /\ solverCalls' = solverCalls + 1
                /\ backendCalls' = backendCalls + (IF o.backend = "NONE" THEN 0 ELSE 1)
                /\ lastBackend' = o.backend
                /\ IF o.raised
                   THEN /\ pc' = "aborted" /\ report' = ErrorAt(i + 1)
                        /\ UNCHANGED <<i, results, counter, loc>>
                   ELSE /\ loc' = FileLocals(loc, row, params, o.ret)
                        /\ counter' = Count(counter, o.ret.selected)
                        /\ results' = Append(results, FileResultRow(loc', row))
                        /\ i' = i + 1
                        /\ UNCHANGED <<pc, report>>
    /\ UNCHANGED <<mode, df, params>>
    /\ UNCHANGED <<solverVars, rowVars, tolVars>>

\* after the loop: the summary (sort_values('count') raises KeyError on an
\* empty summary), the suggested codes, the report
FileFinish ==
    /\ mode = "infer_file" /\ pc = "loop" /\ i = Len(df)
    /\ IF CounterItems(counter) = {}
       THEN pc' = "aborted" /\ report' = ErrorAt(0)
       ELSE /\ pc' = "done"
            /\ report' = [kind |-> "ok", rows |-> Len(df),
                          summary |-> SummaryRows(counter, Len(df)),
                          suggested |-> SuggestedSet(counter, Len(df),
                                                     params.summary_threshold)]
    /\ UNCHANGED <<mode, df, params, i, results, counter, loc>>
    /\ UNCHANGED <<solverCalls, backendCalls, lastBackend>>
    /\ UNCHANGED <<solverVars, rowVars, tolVars>>

\* ------------------------------------------------------ batch_infer script
\* if contrib_rate == 0
ScriptSkips(row) == IsZero(row.contribution_rate)

ScriptSkipSol == [status |-> "SKIP", selected |-> <<>>]

ScriptLocals(l, row, sol) ==
    IF ScriptSkips(row)
    THEN [l EXCEPT !.values = row.values, !.eligible_est = None, !.sol = ScriptSkipSol]
    ELSE [l EXCEPT !.values = row.values,
                   !.eligible_est = FDiv(row.contribution_amount, row.contribution_rate),
                   !.sol = sol]

ScriptResultRow(l, row) ==
    [employee_id |-> row.employee_id, eligible_est |-> l.eligible_est,
     selected |-> l.sol.selected, solver_status |-> l.sol.status]

InitScript ==
    /\ mode = "batch_infer" /\ pc = "loop"
    /\ \E n \in 0..MaxRows : df \in Frames(n)
    /\ params = [max_candidates |-> ScriptMaxCandidates,
                 tolerance_pct |-> Zero,
                 summary_threshold |-> ScriptThreshold]
    /\ i = 0 /\ results = <<>> /\ counter = [c \in PayCodes |-> 0]
    /\ loc = NoLocals /\ report = NoReport
    /\ InitSolverVars /\ InitRowVars /\ InitTolVars /\ InitProbes

\* one iteration of `for i, row in df.iterrows()`; an exception ends the script
ScriptRow ==
    /\ mode = "batch_infer" /\ pc = "loop" /\ i < Len(df)
    /\ LET row == df[i + 1]
       IN  IF \/ \E c \in PayCodes : IsText(row.values[c])
              \/ IsText(row.contribution_amount) \/ IsText(row.contribution_rate)
           THEN /\ pc' = "aborted" /\ report' = ErrorAt(i + 1)
                /\ lastBackend' = "NONE"
                /\ UNCHANGED <<i, results, counter, loc, solverCalls, backendCalls>>
           ELSE IF ScriptSkips(row)
           THEN /\ loc' = ScriptLocals(loc, row, ScriptSkipSol)
                /\ results' = Append(results, ScriptResultRow(loc', row))
                /\ i' = i + 1
                /\ lastBackend' = "NONE"
                /\ UNCHANGED <<pc, report, counter, solverCalls, backendCalls>>
           ELSE \E o \in SolveOutcomes(row.values,
                                       FDiv(row.contribution_amount, row.contribution_rate),
                                       params.max_candidates, TRUE) :
                /\ solverCalls' = solverCalls + 1
                /\ backendCalls' = backendCalls + (IF o.backend = "NONE" THEN 0 ELSE 1)
                /\ lastBackend' = o.backend
                /\ IF o.raised
                   THEN /\ pc' = "aborted" /\ report' = ErrorAt(i + 1)
                        /\ UNCHANGED <<i, results, counter, loc>>
                   ELSE /\ loc' = ScriptLocals(loc, row, o.ret)
                        /\ counter' = Count(counter, o.ret.selected)
                        /\ results' = Append(results, ScriptResultRow(loc', row))
                        /\ i' = i + 1
                        /\ UNCHANGED <<pc, report>>
    /\ UNCHANGED <<mode, df, params>>
    /\ UNCHANGED <<solverVars, rowVars, tolVars>>

\* the printed counts and the suggested mapping (threshold 0.5)
ScriptFinish ==
    /\ mode = "batch_infer" /\ pc = "loop" /\ i = Len(df)
    /\ pc' = "done"
    /\ report' = [kind |-> "ok", rows |-> Len(df),
                  summary |-> SummaryRows(counter, Len(df)),
                  suggested |-> SuggestedSet(counter, Len(df), params.summary_threshold)]
    /\ UNCHANGED <<mode, df, params, i, results, counter, loc>>
    /\ UNCHANGED <<solverCalls, backendCalls, lastBackend>>
    /\ UNCHANGED <<solverVars, rowVars, tolVars>>

\* -------------------------------------------------------------- infer_row
Requests ==
    [values : {ZeroValues, PlainValues},
     contribution_amount : BatchAmounts \cup {NaN},
     contribution_rate : {Zero, Norm(1, 2)},
     max_candidates : {-1, 1, DefaultMaxCandidates},
     tolerance_pct : {Zero, DefaultTolerance}]

InitRow ==
    /\ mode = "infer_row" /\ pc = "request"
    /\ req \in Requests /\ resp = NoReport
    /\ InitSolverVars /\ InitBatchVars /\ InitTolVars /\ InitProbes

Solved(st) == st \in {"OPTIMAL", "FEASIBLE"}

\* the JSON response built from the solver's dict
RowResponse(r, sol) ==
    [kind |-> "ok",
     solver |-> sol,
     eligible_est |-> FDiv(r.contribution_amount, r.contribution_rate),
     predicted_contribution |->
        IF Solved(sol.status) THEN FMul(sol.selected_sum, r.contribution_rate) ELSE None,
     within_tolerance |->
        IF Solved(sol.status)
        THEN WithinTolerance(sol.selected_sum, r.contribution_rate,
                             r.contribution_amount, r.tolerance_pct)
        ELSE FALSE]

\* mutant of RowRejects: the validation is dropped
RowRejects_Never(r) == FALSE

\* the validation `if req.contribution_rate == 0`
RowRejects(r) == IsZero(r.contribution_rate)

\* POST /infer_row; past the validation, `contribution_amount /
\* contribution_rate` raises ZeroDivisionError on a zero rate, which ends
\* the request with 500 before the solver is called
InferRow ==
    /\ mode = "infer_row" /\ pc = "request"
    /\ IF RowRejects(req)
       THEN /\ pc' = "rejected" /\ resp' = [kind |-> "error", status |-> 400]
            /\ UNCHANGED <<solverCalls, backendCalls, lastBackend>>
       ELSE IF IsZero(req.contribution_rate)
       THEN /\ pc' = "failed" /\ resp' = [kind |-> "error", status |-> 500]
            /\ UNCHANGED <<solverCalls, backendCalls, lastBackend>>
       ELSE \E o \in SolveOutcomes(req.values,
                                   FDiv(req.contribution_amount, req.contribution_rate),
                                   req.max_candidates, TRUE) :
            /\ solverCalls' = solverCalls + 1
            /\ backendCalls' = backendCalls + (IF o.backend = "NONE" THEN 0 ELSE 1)
            /\ lastBackend' = o.backend
            /\ IF o.raised
               THEN pc' = "failed" /\ resp' = [kind |-> "error", status |-> 500]
               ELSE pc' = "responded" /\ resp' = RowResponse(req, o.ret)
    /\ UNCHANGED <<mode, req>>
    /\ UNCHANGED <<solverVars, batchVars, tolVars>>

Init == InitFile \/ InitScript \/ InitRow
Next == FileRow \/ FileFinish \/ ScriptRow \/ ScriptFinish \/ InferRow
Spec == Init /\ [][Next]_vars

\* ------------------------------------------- the tolerance verdict alone
MaxContrib == 3    \* contribution_amount ranges over -MaxContrib .. MaxContrib
MaxSum == 4        \* selected_sum ranges over 0 .. MaxSum

TolSet == {Norm(k, 2) : k \in -MaxTol..MaxTol}

\* tq.lower keeps the tolerance_pct of the previous evaluation
InitTol ==
    /\ mode = "tolerance" /\ pc = "open"
    /\ \E s \in 0..MaxSum, a \in -MaxContrib..MaxContrib, r \in {Norm(1, 2), One},
          tol \in TolSet :
          tq = [selected_sum |-> Dollars(s), rate |-> r, amount |-> Dollars(a),
                tolerance_pct |-> tol, lower |-> tol]
    /\ verdict = FALSE
    /\ InitSolverVars /\ InitBatchVars /\ InitRowVars /\ InitProbes

\* within_tol = (err <= max(tolerance_pct * contribution_amount, 1.0))
Judge ==
    /\ mode = "tolerance" /\ pc = "open"
    /\ verdict' = WithinTolerance(tq.selected_sum, tq.rate, tq.amount, tq.tolerance_pct)
    /\ pc' = "judged"
    /\ UNCHANGED <<mode, tq, solverCalls, backendCalls, lastBackend>>
    /\ UNCHANGED <<solverVars, batchVars, rowVars>>

\* the same figures judged again under a larger tolerance_pct
JudgeLarger ==
    /\ mode = "tolerance" /\ pc = "judged"
    /\ \E tol \in TolSet :
          /\ FLt(tq.tolerance_pct, tol)
          /\ tq' = [tq EXCEPT !.tolerance_pct = tol, !.lower = tq.tolerance_pct]
          /\ verdict' = WithinTolerance(tq.selected_sum, tq.rate, tq.amount, tol)
    /\ UNCHANGED <<mode, pc, solverCalls, backendCalls, lastBackend>>
    /\ UNCHANGED <<solverVars, batchVars, rowVars>>

NextTol == Judge \/ JudgeLarger
SpecTol == InitTol /\ [][NextTol]_vars

\* ----------------------------------------------------------------- claims
\* the arguments of the call are non-negative numbers
NonNegativeCall ==
    /\ \A c \in PayCodes : call.values[c].n >= 0
    /\ IsNum(call.target) /\ call.target.n >= 0

\* the candidate indices the returned dict selects
SelectedIdx ==
    {k \in 1..Len(names) : \E j \in 1..Len(ret.selected) : ret.selected[j] = names[k]}

OptimalReturn ==
    /\ mode = "solve" /\ pc = "returned" /\ ret.status = "OPTIMAL"
    /\ call.prefer_fewer /\ NonNegativeCall

\* C2: an OPTIMAL result with prefer_fewer (non-negative amounts and target)
\* has the least deviation |sum - target| of all subsets of the candidate
\* list and, among the subsets of that deviation, the fewest codes; an exact
\* hit gives abs_error = 0; a total below the target selects every candidate
\* whose scaled value is non-zero.
C2_LexicographicOptimum ==
    OptimalReturn =>
        LET sv == cpm.scaled_vals
            t == cpm.scaled_target
            D(Y) == AbsInt(SumIdx(sv, Y) - t)
        IN  /\ ret.scaled_error = D(SelectedIdx)
            /\ \A Y \in SUBSET (1..Len(names)) :
                  /\ ret.scaled_error <= D(Y)
                  /\ D(Y) = ret.scaled_error => Len(ret.selected) <= Cardinality(Y)
            /\ (\E Y \in SUBSET (1..Len(names)) : SumIdx(sv, Y) = t)
                  => IsZero(ret.abs_error)
            /\ SumAll(sv) < t
                  => SelectedIdx = {k \in 1..Len(names) : sv[k] # 0}

\* C2 witness: an OPTIMAL result where a larger subset has the same deviation
C2_Witness ==
    /\ OptimalReturn
    /\ Len(ret.selected) >= 1
    /\ \E Y \in SUBSET (1..Len(names)) :
          /\ AbsInt(SumIdx(cpm.scaled_vals, Y) - cpm.scaled_target) = ret.scaled_error
          /\ Cardinality(Y) > Len(ret.selected)

\* C6: the candidate list holds no exact-zero amount, and the reported
\* num_candidates exceeds neither max_candidates nor the number of non-zero
\* input values.
C6_PruningBound ==
    (mode = "solve" /\ pc = "returned" /\ "num_candidates" \in DOMAIN ret) =>
        /\ \A k \in 1..Len(names) : ~IsZero(call.values[names[k]])
        /\ ret.num_candidates <= call.max_candidates
        /\ ret.num_candidates <= Cardinality({c \in PayCodes : ~IsZero(call.values[c])})

\* C7: with no non-zero candidate the call returns INFEASIBLE, selected = [],
\* abs_error = target, without invoking the backend; and when the backend
\* answers INFEASIBLE the call returns a result of status INFEASIBLE: it never
\* raises.
C7_InfeasibleIsAResult ==
    (mode = "solve" /\ pc \in {"returned", "raised"}) =>
        /\ NonZeroItems(call.values) = <<>> =>
              /\ pc = "returned"
              /\ ret.status = "INFEASIBLE" /\ ret.selected = <<>>
              /\ ret.abs_error = call.target
              /\ backendCalls = 0
        /\ response.status = "INFEASIBLE" =>
              pc = "returned" /\ ret.status = "INFEASIBLE"

Batch == mode \in {"infer_file", "batch_infer"}

HasCode(selected, c) == \E j \in 1..Len(selected) : selected[j] = c

\* the processed rows that are not SKIP and selected the code c
RowsSelecting(c) ==
    {k \in 1..Len(results) :
        results[k].solver_status # "SKIP" /\ HasCode(results[k].selected, c)}

\* C1: in both batch loops a row is SKIP iff its contribution_rate or its
\* contribution_amount is 0; a SKIP row never reaches the solver and adds
\* nothing to the counter, which counts the non-skipped rows only.
C1_SkipIffZero ==
    Batch =>
        /\ \A k \in 1..Len(results) :
              results[k].solver_status = "SKIP"
                 <=> (IsZero(df[k].contribution_rate) \/ IsZero(df[k].contribution_amount))
        /\ pc # "aborted" =>
              solverCalls = Cardinality({k \in 1..Len(results) :
                                            results[k].solver_status # "SKIP"})
        /\ \A c \in PayCodes : counter[c] = Cardinality(RowsSelecting(c))

\* C3: in /infer_row and /infer_file alike, a status other than OPTIMAL or
\* FEASIBLE leaves within_tolerance false and predicted_contribution None.
C3_VerdictOnlyWhenSolved ==
    /\ mode = "infer_file" =>
          \A k \in 1..Len(results) :
              ~Solved(results[k].solver_status) =>
                  /\ results[k].within_tolerance = FALSE
                  /\ results[k].predicted_contribution = None
    /\ (mode = "infer_row" /\ pc = "responded" /\ ~Solved(resp.solver.status)) =>
          /\ resp.within_tolerance = FALSE
          /\ resp.predicted_contribution = None

\* C4: a batch of N rows is never aborted and loses no row: the per-row
\* table ends with N entries, the i-th being the result of the i-th row.
C4_NoRowLost ==
    mode = "infer_file" =>
        /\ pc # "aborted"
        /\ pc = "done" =>
              /\ Len(results) = Len(df)
              /\ \A k \in 1..Len(df) : results[k].employee_id = df[k].employee_id

\* C5: a row whose solve ends UNKNOWN (time limit, no assignment) yields a
\* result flagged UNKNOWN and the batch goes on to the next rows: the batch
\* is never aborted at such a row.
C5_TimeoutNeverAborts ==
    (mode = "infer_file" /\ lastBackend = "UNKNOWN") =>
        /\ ~(pc = "aborted" /\ report.row = i + 1)
        /\ i >= 1 /\ results[i].solver_status = "UNKNOWN"

\* the fraction count / total_rows of the code c meets the threshold th
FractionMeets(c, th) == FLe(th, Norm(Cardinality(RowsSelecting(c)), Len(df)))

Reported == Batch /\ pc = "done" /\ Len(df) > 0

RowAlone(row) ==
    IF mode = "infer_file"
    THEN IF FileSkips(row)
         THEN {FileResultRow(FileLocals(NoLocals, row, params, SkipSol), row)}
         ELSE {FileResultRow(FileLocals(NoLocals, row, params, o.ret), row) :
                 o \in {q \in SolveOutcomes(RowValues(row),
                                            FDiv(row.contribution_amount,
                                                 row.contribution_rate),
                                            params.max_candidates, TRUE) : ~q.raised}}
    ELSE IF ScriptSkips(row)
         THEN {ScriptResultRow(ScriptLocals(NoLocals, row, ScriptSkipSol), row)}
         ELSE {ScriptResultRow(ScriptLocals(NoLocals, row, o.ret), row) :
                 o \in {q \in SolveOutcomes(row.values,
                                            FDiv(row.contribution_amount,
                                                 row.contribution_rate),
                                            params.max_candidates, TRUE) : ~q.raised}}

\* the rows among W whose result selected the code c
SelectingIn(W, c) == {k \in W : HasCode(results[k].selected, c)}

\* the state part of C10: the per-row table is in input order, the counter
\* is the order-free count of the rows selecting each code (the sum of the
\* partial counts of any split of the rows), and the suggested set is a
\* function of these counts
OrderFreeReport ==
    Batch =>
        /\ Len(results) = i
        /\ \A k \in 1..i : results[k].employee_id = df[k].employee_id
        /\ \A c \in PayCodes :
              \A W \in SUBSET (1..i) :
                  counter[c] = Cardinality(SelectingIn(W, c))
                               + Cardinality(SelectingIn((1..i) \ W, c))
        /\ pc = "done" =>
              report.suggested =
                 {c \in PayCodes :
                     /\ SelectingIn(1..i, c) # {}
                     /\ FLe(params.summary_threshold,
                            Norm(Cardinality(SelectingIn(1..i, c)), Len(df)))}

\* the step part of C10: an iteration leaves the results of the rows before
\* it alone and appends a result of its row processed alone
RowStepAlone ==
    (Batch /\ i' = i + 1) =>
        /\ Len(results') = i'
        /\ \A k \in 1..i : results'[k] = results[k]
        /\ results'[i'] \in RowAlone(df[i'])

C8_Monotone == [][(pc = "judged" /\ verdict) => verdict']_vars

\* C8 (amended): once within_tolerance holds, it holds under every larger
\* tolerance_pct, provided contribution_amount >= 0 or the tolerance_pct it
\* held under is >= 0.
C8_MonotoneNonNegative ==
    [][(pc = "judged" /\ verdict /\ (tq.amount.n >= 0 \/ tq.tolerance_pct.n >= 0))
          => verdict']_vars

\* C8 witness: a verdict that held under the smaller tolerance by the
\* absolute floor and holds under the larger one by the relative bound
C8_Witness ==
    /\ mode = "tolerance" /\ pc = "judged" /\ verdict
    /\ FLt(tq.lower, tq.tolerance_pct)
    /\ WithinTolerance(tq.selected_sum, tq.rate, tq.amount, tq.lower)
    /\ FLt(FMul(tq.lower, tq.amount), One)
    /\ FLt(One, FMul(tq.tolerance_pct, tq.amount))

\* C11: in /infer_row a request with contribution_rate == 0 is rejected with
\* the input error (HTTP 400) before any solve attempt: whatever its other
\* fields, no state of its execution has called solve_subset_selection or
\* the backend, none carries a computed target, and the only way it ends is
\* the rejection.
C11_ZeroRateRejectedUnsolved ==
    (mode = "infer_row" /\ IsZero(req.contribution_rate)) =>
        /\ pc \in {"request", "rejected"}
        /\ solverCalls = 0 /\ backendCalls = 0 /\ lastBackend = "NONE"
        /\ pc = "request" => resp = NoReport
        /\ pc = "rejected" =>
              /\ resp = [kind |-> "error", status |-> 400]
              /\ "eligible_est" \notin DOMAIN resp
              /\ "solver" \notin DOMAIN resp

\* C11 witness: a rejected zero-rate request whose other fields would have
\* gone to the solver (non-zero amount, non-zero pay-code values)
C11_Witness ==
    /\ mode = "infer_row" /\ pc = "rejected"
    /\ IsZero(req.contribution_rate)
    /\ req.contribution_amount = Dollars(5)
    /\ req.values = PlainValues
    /\ resp.status = 400
    /\ solverCalls = 0

====
